---- MODULE Spec2Model ----
(***************************************************************************)
(* Model of squash's adaptive bitrate search (src/squash/__main__.py):    *)
(* _resize_video_to_target, the pure estimators it calls, and the exit    *)
(* code main derives from its outcome.                                     *)
(*                                                                         *)
(* Sizes are bytes.  Bitrates are Python floats in kbps; here they are     *)
(* fixed-point integers counting 1/BitrateScale kbps.  Every float         *)
(* division rounds; the direction of the rounding is the input `rounding`  *)
(* ("down" or "up"), so that a property has to hold for both.              *)
(***************************************************************************)
EXTENDS Integers, Sequences, FiniteSets, TLC

\* ---------------------------------------------------------------- bounds
BitrateScale == 100
MaxIterations == 3
\* progress blocks read during one encode
MaxBlocks == 1
\* percent is kept in 1/PercentScale percent
PercentScale == 10

\* ------------------------------------------------------------- constants
BYTES_PER_MEGABYTE == 1048576
MIN_VIDEO_BITRATE == 100
MIN_AUDIO_BITRATE == 32
AUDIO_BITRATE == 128
CONTAINER_OVERHEAD == 97        \* 0.97, in hundredths
DefaultIterations == 15
MaxTolerance == 50

\* MIN_VIDEO_BITRATE in bitrate units
MinVideo == MIN_VIDEO_BITRATE * BitrateScale

VARIABLES
    \* inputs of the run (arguments, the input file, what the tools answer)
    input_exists, current_video_size, target_size_mb, tolerance, iterations,
    probe, encoder, rounding,
    \* --tolerance is a float: TRUE when it parsed as NaN (tolerance is then unused)
    tolerance_nan,
    \* locals of _resize_video_to_target
    pc, video_duration, source_bitrate, audio_bitrate, target_bitrate,
    min_bitrate, max_bitrate, current_bitrate, best_under, best_over,
    last_encoded_size, last_encoded_bitrate, iteration, broke,
    \* files, the value returned or raised, and main's exit code
    temp_output, output_file, results, error, exit_code,
    \* history: the encodes performed so far, <<bitrate, size>> each
    seen, encodes_started, probed,
    \* whether the ffmpeg subprocess of the current encode is still alive
    proc_running,
    \* _encode_video: the progress block read last, the status built from
    \* it, and the number of blocks read in the encode in flight
    progress, status, blocks

inputs == <<input_exists, current_video_size, target_size_mb, tolerance,
            tolerance_nan, iterations, probe, encoder, rounding>>
search == <<video_duration, source_bitrate, audio_bitrate, target_bitrate,
            min_bitrate, max_bitrate, current_bitrate, best_under, best_over,
            last_encoded_size, last_encoded_bitrate>>
vars == <<inputs, search, pc, iteration, broke, temp_output, output_file,
          results, error, exit_code, seen, encodes_started, probed,
          proc_running, progress, status, blocks>>
display == <<progress, status, blocks>>

\* ------------------------------------------------------------ arithmetic
Abs(x) == IF x < 0 THEN -x ELSE x
Min2(a, b) == IF a < b THEN a ELSE b
Max2(a, b) == IF a > b THEN a ELSE b

\* <<q, r>> with a * b = q * c + r and 0 <= r < c, for a, b >= 0 and c > 0,
\* computed without forming a * b (which does not fit the integer width);
\* h is the result for b \div 2, evaluated once
RECURSIVE MulDivQR(_, _, _)
MulDivQR(a, b, c) ==
    IF b = 0 THEN <<0, 0>>
    ELSE CHOOSE qr \in
           { LET carry == IF 2 * h[2] >= c THEN 1 ELSE 0
                 q2 == 2 * h[1] + carry
                 r2 == 2 * h[2] - carry * c
             IN  IF b % 2 = 0 THEN <<q2, r2>>
                 ELSE LET r3 == r2 + (a % c)
                      IN  IF r3 >= c THEN <<q2 + (a \div c) + 1, r3 - c>>
                          ELSE <<q2 + (a \div c), r3>>
             : h \in {MulDivQR(a, b \div 2, c)} } : TRUE

\* a * b / c as a float computes it: the quotient, rounded down or up
FMulDiv(a, b, c) ==
    CHOOSE v \in
      { LET neg == (a < 0) # (b < 0)
            lo == IF neg THEN (IF qr[2] > 0 THEN -qr[1] - 1 ELSE -qr[1]) ELSE qr[1]
            hi == IF qr[2] > 0 THEN lo + 1 ELSE lo
        IN  IF rounding = "down" THEN lo ELSE hi
        : qr \in {MulDivQR(Abs(a), Abs(b), c)} } : TRUE

FDiv(a, c) == FMulDiv(a, 1, c)

None == [set |-> FALSE, bitrate |-> 0, size |-> 0]
Some(b, s) == [set |-> TRUE, bitrate |-> b, size |-> s]

NoFile == [exists |-> FALSE, size |-> 0]
File(s) == [exists |-> TRUE, size |-> s]

OptNone == [set |-> FALSE, value |-> 0]
OptSome(v) == [set |-> TRUE, value |-> v]
\* a bit_rate field that float() rejects: parsed to None like a missing one
OptText == [set |-> FALSE, value |-> -1]

NoResults == [returned |-> FALSE, success |-> FALSE, file_path |-> "none",
              file_size |-> 0, target_size |-> 0, iteration |-> 0, bitrate |-> 0]
NoError == [kind |-> "none", closest |-> "none", bitrate |-> 0, size |-> 0]
NoExit == -1

\* ------------------------------------------------------- pure estimators
\* (target_size_bytes * 8) / duration / 1_000, in bitrate units
TotalBitrate(duration, target_size) ==
    FMulDiv(target_size, 8 * BitrateScale, duration * 1000)

_calculate_target_bitrate(duration, target_size, audio) ==
    IF duration <= 0 THEN MinVideo
    ELSE LET total_bitrate == TotalBitrate(duration, target_size)
             target_video_bitrate ==
                 FMulDiv(total_bitrate - audio * BitrateScale, CONTAINER_OVERHEAD, 100)
         IN  IF target_video_bitrate < MinVideo THEN MinVideo
             ELSE target_video_bitrate

\* returns whole kbps (an int in the source)
_select_audio_bitrate(duration, target_size, default_audio_bitrate) ==
    IF duration <= 0 THEN default_audio_bitrate
    ELSE LET total_bitrate == TotalBitrate(duration, target_size)
             min_video_total == FDiv(MinVideo * 100, CONTAINER_OVERHEAD)
             max_audio_bitrate == total_bitrate - min_video_total
             adjusted == max_audio_bitrate \div BitrateScale
         IN  IF max_audio_bitrate >= default_audio_bitrate * BitrateScale
                 THEN default_audio_bitrate
             ELSE IF max_audio_bitrate <= 0 THEN MIN_AUDIO_BITRATE
             ELSE IF adjusted < MIN_AUDIO_BITRATE THEN MIN_AUDIO_BITRATE
             ELSE adjusted

\* the estimate without the damping step
EstimateWithoutDamping(cur, current_size, target_size, min_b, max_b, under, over) ==
    LET midpoint == FDiv(min_b + max_b, 2)
        size_span == over.size - under.size
        next_bitrate ==
            IF under.set /\ over.set
            THEN IF size_span > 0
                 THEN under.bitrate
                      + FMulDiv(target_size - under.size,
                                over.bitrate - under.bitrate, size_span)
                 ELSE midpoint
            ELSE IF current_size > 0
                 THEN FMulDiv(cur, target_size, current_size)
                 ELSE midpoint
    IN  IF next_bitrate < min_b THEN min_b
        ELSE IF next_bitrate > max_b THEN max_b
        ELSE next_bitrate

\* the estimate without the clamp to [min_b, max_b]
EstimateWithoutClamp(cur, current_size, target_size, min_b, max_b, under, over) ==
    LET midpoint == FDiv(min_b + max_b, 2)
        size_span == over.size - under.size
        next_bitrate ==
            IF under.set /\ over.set
            THEN IF size_span > 0
                 THEN under.bitrate
                      + FMulDiv(target_size - under.size,
                                over.bitrate - under.bitrate, size_span)
                 ELSE midpoint
            ELSE IF current_size > 0
                 THEN FMulDiv(cur, target_size, current_size)
                 ELSE midpoint
    IN  IF Abs(next_bitrate - cur) < BitrateScale /\ midpoint # next_bitrate
        THEN midpoint
        ELSE next_bitrate

_estimate_next_bitrate(cur, current_size, target_size, min_b, max_b, under, over) ==
    LET midpoint == FDiv(min_b + max_b, 2)
        size_span == over.size - under.size
        next_bitrate ==
            IF under.set /\ over.set
            THEN IF size_span > 0
                 THEN under.bitrate
                      + FMulDiv(target_size - under.size,
                                over.bitrate - under.bitrate, size_span)
                 ELSE midpoint
            ELSE IF current_size > 0
                 THEN FMulDiv(cur, target_size, current_size)
                 ELSE midpoint
        clamped == IF next_bitrate < min_b THEN min_b
                   ELSE IF next_bitrate > max_b THEN max_b
                   ELSE next_bitrate
    IN  IF Abs(clamped - cur) < BitrateScale /\ midpoint # clamped
        THEN midpoint
        ELSE clamped

\* ------------------------------------------------- locals of the controller
target_size_bytes == target_size_mb * BYTES_PER_MEGABYTE

\* tolerance_bytes = target_size_bytes * (tolerance / 100), as <<whole, rest>>:
\* tolerance_bytes = whole + rest / 100
\* a NaN tolerance makes tolerance_bytes NaN, and gap < NaN is false for
\* every gap, as gap < 0 is for the gaps >= 0 of under-target encodes
tolerance_bytes ==
    IF tolerance_nan THEN <<0, 0>>
    ELSE MulDivQR(target_size_bytes, tolerance, 100)

\* gap_to_target <= tolerance_bytes instead of <
WithinToleranceInclusive(gap_to_target) == gap_to_target <= tolerance_bytes[1]

\* gap_to_target < tolerance_bytes, for an integer gap
WithinTolerance(gap_to_target) ==
    \/ gap_to_target < tolerance_bytes[1]
    \/ gap_to_target = tolerance_bytes[1] /\ tolerance_bytes[2] > 0

\* the least integer gap that is not within the tolerance
ToleranceCeil == IF tolerance_bytes[2] > 0 THEN tolerance_bytes[1] + 1
                 ELSE tolerance_bytes[1]

\* the synthetic encoder of the test scenarios:
\* size = bitrate_kbps * duration_s * 125 bytes
LinearEncoder(bitrate) == FMulDiv(bitrate, video_duration * 125, BitrateScale)

\* file sizes an arbitrary encoder may produce, around the target
Outcomes ==
    { 0, target_size_bytes \div 2,
      target_size_bytes - ToleranceCeil, target_size_bytes - ToleranceCeil + 1,
      target_size_bytes, target_size_bytes + 1,
      target_size_bytes + target_size_bytes \div 2 }

EncodedSizes == IF encoder = "linear" THEN {LinearEncoder(current_bitrate)}
                ELSE Outcomes

\* current_video_size < target_size_bytes instead of <=
AlreadyFitsStrict(size) == size < target_size_bytes

\* current_video_size <= target_size_bytes
AlreadyFits(size) == size <= target_size_bytes

\* new_file_size < target_size_bytes: the outcome is "under", else "over"
IsUnder(size) == size < target_size_bytes

\* best_under overwritten by every under-target outcome
UpdateBestUnderAlways(best, bitrate, size) == Some(bitrate, size)

\* best_under keeps the largest under-target outcome
UpdateBestUnder(best, bitrate, size) ==
    IF ~best.set \/ size > best.size THEN Some(bitrate, size) ELSE best

\* best_over overwritten by every over-target outcome
UpdateBestOverAlways(best, bitrate, size) == Some(bitrate, size)

\* best_over keeps the smallest over-target outcome
UpdateBestOver(best, bitrate, size) ==
    IF ~best.set \/ size < best.size THEN Some(bitrate, size) ELSE best

\* min_bitrate left as it was
KeepMinBitrate(cur, min_b) == min_b

\* min_bitrate = current_bitrate, after an under-target encode outside tolerance
RaiseMinBitrate(cur, min_b) == cur

\* max_bitrate left as it was
KeepMaxBitrate(cur, max_b) == max_b

\* max_bitrate = current_bitrate, after an over-target encode
LowerMaxBitrate(cur, max_b) == cur

\* final_size < target_size_bytes instead of <=
FinalFitsStrict(final_size) == final_size < target_size_bytes

\* the last encode accepted up to the tolerance above the target
FinalFitsWithinTolerance(final_size) ==
    final_size <= target_size_bytes + tolerance_bytes[1]

\* final_size <= target_size_bytes: the last encode is usable
FinalFits(final_size) == final_size <= target_size_bytes

\* a promotion that puts nothing at the output path
ReplaceNothing(temp) == NoFile

\* temp_output.replace(output_file): the content the output path gets
Replace(temp) == temp

\* an unlink that leaves the file where it is
UnlinkNothing(file) == file

\* path.unlink(missing_ok=True): what is left at the path
_safe_unlink(file) == NoFile

_build_results(success, file_path, file_size, target_size, iter, bitrate) ==
    [returned |-> TRUE, success |-> success, file_path |-> file_path,
     file_size |-> file_size, target_size |-> target_size,
     iteration |-> iter, bitrate |-> bitrate]

\* ------------------------------------------------------ progress status
\* the out_time_ms value of a progress block: absent, an integer (in
\* microseconds), an integer too large to be divided into a float, or text
\* that is not an integer
NoTime == [kind |-> "absent", value |-> 0]
TimeInt(v) == [kind |-> "int", value |-> v]
TimeHuge == [kind |-> "huge", value |-> 0]
TimeText == [kind |-> "text", value |-> 0]

\* the speed value of a progress block: absent, a number followed by x
\* (in hundredths), or text that is not a number
NoSpeed == [kind |-> "absent", value |-> 0]
SpeedNum(h) == [kind |-> "num", value |-> h]
SpeedText == [kind |-> "text", value |-> 0]

NoBlock == [out_time_ms |-> NoTime, speed |-> NoSpeed]
NoStatus == [raised |-> FALSE, percent |-> OptNone, eta |-> OptNone]

\* float(speed) without the trailing x, None when absent or not a number
_parse_speed_multiplier(speed) ==
    IF speed.kind = "num" THEN OptSome(speed.value) ELSE OptNone

\* percent in 1/PercentScale percent and eta in microseconds; raised when
\* int(out_time_ms) / 1_000_000 overflows (OverflowError is not caught)
_build_progress_status(block, duration) ==
    LET out_time_ms == block.out_time_ms
        has_time == out_time_ms.kind # "absent"
        speed_multiplier == _parse_speed_multiplier(block.speed)
        has_speed == speed_multiplier.set /\ speed_multiplier.value # 0
        percent == IF has_time /\ duration > 0 /\ out_time_ms.kind = "int"
                   THEN OptSome(Min2(100 * PercentScale,
                                     FMulDiv(out_time_ms.value, 100 * PercentScale,
                                             duration * 1000000)))
                   ELSE OptNone
        eta == IF has_speed /\ has_time /\ out_time_ms.kind = "int"
                  /\ speed_multiplier.value > 0
               THEN OptSome(FMulDiv(Max2(0, duration * 1000000 - out_time_ms.value),
                                    100, speed_multiplier.value))
               ELSE OptNone
        raises == /\ out_time_ms.kind = "huge"
                  /\ duration > 0 \/ has_speed
    IN  IF raises THEN [raised |-> TRUE, percent |-> OptNone, eta |-> OptNone]
        ELSE [raised |-> FALSE, percent |-> percent, eta |-> eta]

\* a loop that runs one pass more than the budget
LoopContinuesInclusive(iter, iters) == iter <= iters

\* while iteration < iterations
LoopContinues(iter, iters) == iter < iters

\* main's argument validation: each failed test returns 1
ArgumentsValid ==
    /\ input_exists
    /\ ~(target_size_mb < 1)
    \* every comparison with NaN is false
    /\ ~(~tolerance_nan /\ (tolerance <= 0 \/ tolerance > MaxTolerance))
    /\ ~(iterations <= 0)

\* a mapping that reports every raised exception as a cancellation
ExitCodeAlwaysCancelled(outcome) ==
    CASE outcome = "returned" -> 0
      [] OTHER -> 130

\* main's try block: 0 when the controller returns, 130 on
\* KeyboardInterrupt, 1 on any other exception
ExitCode(outcome) ==
    CASE outcome = "returned" -> 0
      [] outcome = "KeyboardInterrupt" -> 130
      [] OTHER -> 1

\* ------------------------------------------------------------------ Init
\* what ffprobe answers: its exit status, the duration (whole seconds) and
\* the optional bit_rate (bitrate units)
ProbeAnswers ==
    { [status |-> st, duration |-> d, bitrate |-> b] :
        st \in {"ok"}, d \in {20, 120},
        b \in {OptNone, OptSome(0), OptSome(400 * BitrateScale)} }
    \cup { [status |-> "ok", duration |-> 30, bitrate |-> OptNone],
           [status |-> "ok", duration |-> 20, bitrate |-> OptText] }
    \cup { [status |-> st, duration |-> 0, bitrate |-> OptNone] :
             st \in {"ok", "nonzero", "noduration", "invalid"} }

\* _get_video_info returned and the duration is positive
ProbeUsable == probe.status = "ok" /\ ~(probe.duration <= 0)

Init ==
    /\ input_exists \in BOOLEAN
    /\ target_size_mb \in {0, 1, 100}
    /\ current_video_size \in
           IF input_exists
           THEN { target_size_bytes \div 2, target_size_bytes,
                  2 * target_size_bytes, 5 * target_size_bytes }
           ELSE {0}
    /\ tolerance_nan \in BOOLEAN
    /\ tolerance \in IF tolerance_nan THEN {0}
                     ELSE {0, 2, MaxTolerance, MaxTolerance + 1}
    \* the arbitrary encoder is explored at the 1MB target only
    /\ encoder \in (IF target_size_mb = 1 THEN {"any"} ELSE {}) \cup {"linear"}
    /\ iterations \in (0 .. MaxIterations)
                      \cup (IF encoder = "linear" THEN {DefaultIterations} ELSE {})
    /\ probe \in ProbeAnswers
    \* the arbitrary encoder is explored without a probed bit_rate
    /\ encoder = "any" => ~probe.bitrate.set
    /\ rounding \in {"down", "up"}
    \* rejected arguments and a NaN tolerance are explored with one answer
    \* of the tools
    /\ \/ ArgumentsValid /\ ~tolerance_nan
       \/ /\ encoder = "linear"
          /\ rounding = "down"
          /\ probe = [status |-> "ok", duration |-> 20, bitrate |-> OptNone]
    /\ pc = "start"
    /\ video_duration = 0
    /\ source_bitrate = OptNone
    /\ audio_bitrate = 0
    /\ target_bitrate = 0
    /\ min_bitrate = 0
    /\ max_bitrate = 0
    /\ current_bitrate = 0
    /\ best_under = None
    /\ best_over = None
    /\ last_encoded_size = -1
    /\ last_encoded_bitrate = -1
    /\ iteration = 0
    /\ broke = FALSE
    /\ temp_output = NoFile
    /\ output_file = NoFile
    /\ results = NoResults
    /\ error = NoError
    /\ exit_code = NoExit
    /\ seen = <<>>
    /\ encodes_started = 0
    /\ probed = FALSE
    /\ proc_running = FALSE
    /\ progress = NoBlock
    /\ status = NoStatus
    /\ blocks = 0

\* ----------------------------------------- the setup before the loop
\* the probed bit_rate passed on as it is
SourceAsProbed == probe.bitrate

\* source_bitrate: what the probe gave, else the estimate from the file size
InitialSource ==
    IF probe.bitrate.set THEN probe.bitrate
    ELSE OptSome(FMulDiv(current_video_size, 8 * BitrateScale,
                         probe.duration * 1000))

InitialAudio == _select_audio_bitrate(probe.duration, target_size_bytes, AUDIO_BITRATE)

\* (the audio bitrate is evaluated once)
InitialTarget ==
    CHOOSE target \in
      { _calculate_target_bitrate(probe.duration, target_size_bytes, audio)
        : audio \in {InitialAudio} } : TRUE

\* max_bitrate: twice the target, capped by the source, not below the target
\* (source, audio and target bitrate are evaluated once)
InitialMax ==
    CHOOSE max_b \in
      { LET source_video_cap == Max2(MinVideo, source.value - audio * BitrateScale)
            capped == IF source.set /\ source.value > 0
                      THEN Min2(target * 2, FMulDiv(source_video_cap, 11, 10))
                      ELSE target * 2
        IN  Max2(capped, target)
        : source \in {InitialSource}, audio \in {InitialAudio},
          target \in {InitialTarget} } : TRUE

\* --------------------------------------------------------------- actions
\* an argument fails main's validation: report it and return 1 before the
\* controller is called
RejectArguments ==
    /\ pc = "start"
    /\ ~ArgumentsValid
    /\ pc' = "invalid"
    /\ exit_code' = 1
    /\ UNCHANGED <<inputs, search, iteration, broke, temp_output, output_file,
                   results, error, seen, encodes_started, probed, proc_running,
                   display>>

\* the input already fits: return it as it is (main then exits 0)
AlreadyUnderTarget ==
    /\ pc = "start"
    /\ ArgumentsValid
    /\ AlreadyFits(current_video_size)
    /\ results' = _build_results(TRUE, "input", current_video_size,
                                 target_size_bytes, 0, 0)
    /\ pc' = "done"
    /\ exit_code' = ExitCode("returned")
    /\ UNCHANGED <<inputs, search, iteration, broke, temp_output, output_file,
                   error, seen, encodes_started, probed, proc_running,
                   display>>

\* ffprobe fails, gives no usable duration, or a duration <= 0: the error
\* leaves the controller before a temporary path is chosen
ProbeFailure ==
    /\ pc = "start"
    /\ ArgumentsValid
    /\ ~AlreadyFits(current_video_size)
    /\ ~ProbeUsable
    /\ error' = [kind |-> "probe", closest |-> "none", bitrate |-> 0, size |-> 0]
    /\ pc' = "error"
    /\ exit_code' = ExitCode("Exception")
    /\ UNCHANGED <<inputs, search, iteration, broke, temp_output, output_file,
                   results, seen, encodes_started, probed, proc_running,
                   display>>

\* probe the input, derive the audio bitrate, the first candidate and the
\* bounds, and choose the temporary path
Prepare ==
    /\ pc = "start"
    /\ ArgumentsValid
    /\ ~AlreadyFits(current_video_size)
    /\ ProbeUsable
    /\ video_duration' = probe.duration
    /\ source_bitrate' = InitialSource
    /\ audio_bitrate' = InitialAudio
    /\ target_bitrate' = InitialTarget
    /\ min_bitrate' = MinVideo
    /\ max_bitrate' = InitialMax
    /\ current_bitrate' = InitialTarget
    /\ probed' = TRUE
    /\ pc' = "loop"
    /\ UNCHANGED <<inputs, best_under, best_over, last_encoded_size,
                   last_encoded_bitrate, iteration, broke, temp_output,
                   output_file, results, error, exit_code, seen, encodes_started,
                   proc_running, display>>

\* top of the loop: count the iteration and start ffmpeg on the temp path
\* (ffmpeg -y truncates the file once it has opened it)
StartEncode ==
    /\ pc = "loop"
    /\ ~broke
    /\ LoopContinues(iteration, iterations)
    /\ iteration' = iteration + 1
    /\ encodes_started' = encodes_started + 1
    /\ temp_output' \in {temp_output, File(0)}
    /\ proc_running' = TRUE
    /\ pc' = "encoding"
    /\ progress' = NoBlock
    /\ status' = NoStatus
    /\ blocks' = 0
    /\ UNCHANGED <<inputs, search, broke, output_file, results, error,
                   exit_code, seen, probed>>

\* the progress blocks ffmpeg may write during an encode of the search
StreamBlocks ==
    { [out_time_ms |-> TimeInt(5000000), speed |-> SpeedNum(200)],
      [out_time_ms |-> TimeHuge, speed |-> NoSpeed] }

\* ffmpeg writes a block ending in progress=continue: the status is built
\* and shown; an exception raised while building it leaves _encode_video
\* (the with block waits for ffmpeg) and the controller through finally
ProgressBlock(block) ==
    /\ pc = "encoding"
    /\ blocks < MaxBlocks
    /\ LET shown == _build_progress_status(block, video_duration)
       IN  IF shown.raised
           THEN /\ error' = [kind |-> "progress", closest |-> "none",
                             bitrate |-> 0, size |-> 0]
                /\ temp_output' = _safe_unlink(temp_output)
                /\ pc' = "error"
                /\ exit_code' = ExitCode("Exception")
                /\ proc_running' = FALSE
                /\ progress' = NoBlock
                /\ status' = NoStatus
                /\ blocks' = 0
           ELSE /\ progress' = block
                /\ status' = shown
                /\ blocks' = blocks + 1
                /\ UNCHANGED <<error, temp_output, pc, exit_code, proc_running>>
    /\ UNCHANGED <<inputs, search, iteration, broke, output_file, results,
                   seen, encodes_started, probed>>

\* ffmpeg exits 0 leaving new_file_size bytes at the temp path: classify the
\* outcome, then return the result or move the bounds and pick the next candidate
EncodeReturns(new_file_size) ==
    /\ pc = "encoding"
    /\ new_file_size \in EncodedSizes
    /\ last_encoded_size' = new_file_size
    /\ last_encoded_bitrate' = current_bitrate
    /\ seen' = Append(seen, <<current_bitrate, new_file_size>>)
    /\ proc_running' = FALSE
    /\ LET encoded == File(new_file_size)
           is_under == IsUnder(new_file_size)
           gap_to_target == target_size_bytes - new_file_size
           under == IF is_under
                    THEN UpdateBestUnder(best_under, current_bitrate, new_file_size)
                    ELSE best_under
           over == IF is_under THEN best_over
                   ELSE UpdateBestOver(best_over, current_bitrate, new_file_size)
           min_b == IF is_under THEN RaiseMinBitrate(current_bitrate, min_bitrate)
                    ELSE min_bitrate
           max_b == IF is_under THEN max_bitrate
                    ELSE LowerMaxBitrate(current_bitrate, max_bitrate)
           next == _estimate_next_bitrate(current_bitrate, new_file_size,
                                          target_size_bytes, min_b, max_b, under, over)
       IN  /\ best_under' = under
           /\ best_over' = over
           /\ IF is_under /\ WithinTolerance(gap_to_target)
              THEN /\ output_file' = Replace(encoded)
                   /\ temp_output' = _safe_unlink(NoFile)
                   /\ results' = _build_results(TRUE, "output", new_file_size,
                                     target_size_bytes, iteration, current_bitrate)
                   /\ pc' = "done"
                   /\ exit_code' = ExitCode("returned")
                   /\ UNCHANGED <<min_bitrate, max_bitrate, current_bitrate, broke>>
              ELSE /\ min_bitrate' = min_b
                   /\ max_bitrate' = max_b
                   /\ current_bitrate' = next
                   /\ broke' = (next < MinVideo)
                   /\ temp_output' = encoded
                   /\ pc' = "loop"
                   /\ UNCHANGED <<output_file, results, exit_code>>
    /\ progress' = NoBlock
    /\ status' = NoStatus
    /\ blocks' = 0
    /\ UNCHANGED <<inputs, video_duration, source_bitrate, audio_bitrate,
                   target_bitrate, iteration, error, encodes_started, probed>>

\* the candidate computed after the last encode taken as the final bitrate
NextCandidate == current_bitrate

\* last_encoded_bitrate if last_encoded_bitrate is not None else current_bitrate
final_bitrate ==
    IF last_encoded_bitrate # -1 THEN last_encoded_bitrate ELSE current_bitrate

\* after the loop: promote the last encode if it fits, else raise; the
\* finally clause unlinks the temp path either way
Finalize ==
    /\ pc = "loop"
    /\ broke \/ ~LoopContinues(iteration, iterations)
    /\ LET final_size == IF last_encoded_size # -1 THEN last_encoded_size
                         ELSE temp_output.size
       IN  IF FinalFits(final_size)
           THEN /\ output_file' = Replace(temp_output)
                /\ temp_output' = _safe_unlink(NoFile)
                /\ results' = _build_results(FALSE, "output", final_size,
                                  target_size_bytes, iteration, final_bitrate)
                /\ pc' = "done"
                /\ exit_code' = ExitCode("returned")
                /\ error' = error
           ELSE /\ error' = IF best_over.set
                            THEN [kind |-> "convergence", closest |-> "best_over",
                                  bitrate |-> best_over.bitrate, size |-> best_over.size]
                            ELSE [kind |-> "convergence", closest |-> "final",
                                  bitrate |-> 0, size |-> final_size]
                /\ temp_output' = _safe_unlink(temp_output)
                /\ pc' = "failed"
                /\ exit_code' = ExitCode("Exception")
                /\ UNCHANGED <<output_file, results>>
    /\ UNCHANGED <<inputs, search, iteration, broke, seen, encodes_started,
                   probed, proc_running,
                   display>>

\* ffmpeg exits non-zero: RuntimeError leaves the controller through finally
EncodeFailure ==
    /\ pc = "encoding"
    /\ error' = [kind |-> "encode", closest |-> "none", bitrate |-> 0, size |-> 0]
    /\ temp_output' = _safe_unlink(temp_output)
    /\ pc' = "error"
    /\ exit_code' = ExitCode("Exception")
    /\ proc_running' = FALSE
    /\ progress' = NoBlock
    /\ status' = NoStatus
    /\ blocks' = 0
    /\ UNCHANGED <<inputs, search, iteration, broke, output_file, results,
                   seen, encodes_started, probed>>

\* the user interrupts the encode: KeyboardInterrupt is re-raised through finally
Interrupt ==
    /\ pc = "encoding"
    /\ error' = [kind |-> "interrupt", closest |-> "none", bitrate |-> 0, size |-> 0]
    /\ temp_output' = _safe_unlink(temp_output)
    /\ pc' = "cancelled"
    /\ exit_code' = ExitCode("KeyboardInterrupt")
    /\ proc_running' \in BOOLEAN
    /\ progress' = NoBlock
    /\ status' = NoStatus
    /\ blocks' = 0
    /\ UNCHANGED <<inputs, search, iteration, broke, output_file, results,
                   seen, encodes_started, probed>>

Next ==
    \/ RejectArguments
    \/ AlreadyUnderTarget
    \/ ProbeFailure
    \/ Prepare
    \/ StartEncode
    \/ \E block \in StreamBlocks : ProgressBlock(block)
    \/ Finalize
    \/ EncodeFailure
    \/ Interrupt
    \/ \E s \in EncodedSizes : EncodeReturns(s)

Spec == Init /\ [][Next]_vars

\* ------------------------------------- _build_progress_status by itself
ProgressTimes ==
    {NoTime, TimeHuge, TimeText}
    \cup { TimeInt(v) : v \in {-1000000, 0, 5000000, 10000000, 20000000, 130000000} }

ProgressSpeeds ==
    {NoSpeed, SpeedText} \cup { SpeedNum(h) : h \in {-200, 0, 50, 200} }

ProgressDurations == {0, 10, 120}

\* a progress block and a duration, before the status is built
ProgressInit ==
    /\ progress \in { [out_time_ms |-> t, speed |-> sp] :
                         t \in ProgressTimes, sp \in ProgressSpeeds }
    /\ video_duration \in ProgressDurations
    /\ rounding \in {"down", "up"}
    /\ status = NoStatus
    /\ pc = "status"
    /\ input_exists = TRUE
    /\ target_size_mb = 1
    /\ current_video_size = 2 * target_size_bytes
    /\ tolerance = 2
    /\ tolerance_nan = FALSE
    /\ iterations = 1
    /\ encoder = "linear"
    /\ probe = [status |-> "ok", duration |-> 20, bitrate |-> OptNone]
    /\ source_bitrate = OptNone
    /\ audio_bitrate = 0
    /\ target_bitrate = 0
    /\ min_bitrate = 0
    /\ max_bitrate = 0
    /\ current_bitrate = 0
    /\ best_under = None
    /\ best_over = None
    /\ last_encoded_size = -1
    /\ last_encoded_bitrate = -1
    /\ iteration = 0
    /\ broke = FALSE
    /\ temp_output = NoFile
    /\ output_file = NoFile
    /\ results = NoResults
    /\ error = NoError
    /\ exit_code = NoExit
    /\ seen = <<>>
    /\ encodes_started = 0
    /\ probed = FALSE
    /\ proc_running = FALSE
    /\ blocks = 0

\* status = _build_progress_status(progress, duration)
BuildStatus ==
    /\ pc = "status"
    /\ status' = _build_progress_status(progress, video_duration)
    /\ pc' = "shown"
    /\ UNCHANGED <<inputs, video_duration, source_bitrate, audio_bitrate,
                   target_bitrate, min_bitrate, max_bitrate, current_bitrate,
                   best_under, best_over, last_encoded_size,
                   last_encoded_bitrate, iteration, broke, temp_output,
                   output_file, results, error, exit_code, seen,
                   encodes_started, probed, proc_running, progress, blocks>>

ProgressNext == BuildStatus

ProgressSpec == ProgressInit /\ [][ProgressNext]_vars

\* ---------------------------------------------------------------- claims
Terminal == {"invalid", "done", "failed", "error", "cancelled"}
Succeeded == pc = "done" /\ results.returned /\ results.success
Converged == Succeeded /\ results.iteration >= 1
Exhausted == pc = "done" /\ results.returned /\ ~results.success
Failed == pc = "failed"

EncodedSize(i) == seen[i][2]
LastSize == seen[Len(seen)][2]

\* the i-th encode is under target with a gap below tolerance_bytes
Hit(i) ==
    /\ EncodedSize(i) < target_size_bytes
    /\ \/ target_size_bytes - EncodedSize(i) < tolerance_bytes[1]
       \/ /\ target_size_bytes - EncodedSize(i) = tolerance_bytes[1]
          /\ tolerance_bytes[2] > 0

\* C1: the controller returns success with at least one iteration exactly at
\* the first encode that is strictly under target with a gap strictly below the
\* tolerance, and that encode's temp artifact becomes the output file; no
\* other encode yields success
C1_ConvergedAtFirstHit ==
    /\ \A i \in 1 .. Len(seen) :
          Hit(i) => /\ i = Len(seen)
                    /\ Converged
                    /\ results.iteration = i
                    /\ results.file_path = "output"
                    /\ output_file = File(EncodedSize(i))
                    /\ ~temp_output.exists
    /\ (results.returned /\ results.success /\ results.iteration >= 1)
          => results.iteration = Len(seen) /\ Hit(Len(seen))

C1_Witness == Converged /\ results.iteration >= 2

\* C2: every result the controller returns reports a size <= the target, and
\* no file larger than the target is ever at the output path
C2_ResultNeverOverTarget ==
    /\ results.returned => results.file_size <= target_size_bytes
    /\ output_file.exists => output_file.size <= target_size_bytes

C2_Witness == Exhausted /\ output_file = File(target_size_bytes)

\* Scenario A: 500MB input, 100MB target, 2% tolerance, 120s, linear encoder,
\* default iteration budget, no usable bit_rate from the probe
ScenarioA ==
    /\ target_size_mb = 100
    /\ current_video_size = 500 * BYTES_PER_MEGABYTE
    /\ tolerance = 2
    /\ probe.duration = 120
    /\ probe.bitrate \in {OptNone, OptSome(0)}
    /\ encoder = "linear"
    /\ iterations = DefaultIterations

\* C3: in Scenario A the run never exhausts its budget and never fails, the
\* audio bitrate is the default, and the result it returns is a success
\* within 15 iterations with a size in [98MB, 102MB]
C3_ScenarioAConverges ==
    ScenarioA =>
        /\ ~Failed
        /\ pc = "loop" => iteration < iterations
        /\ probed => audio_bitrate = AUDIO_BITRATE
        /\ results.returned =>
              /\ results.success
              /\ results.iteration \in 1 .. DefaultIterations
              /\ results.file_size >= 98 * BYTES_PER_MEGABYTE
              /\ results.file_size <= 102 * BYTES_PER_MEGABYTE
              /\ output_file = File(results.file_size)

C3_Witness == ScenarioA /\ Converged /\ rounding = "up"

\* C4: called on an input whose size is <= the target, the controller ends
\* the run at once with success, 0 iterations and the input path as output;
\* nothing is probed, encoded, or written to the temp or output path
C4_AlreadyUnderTarget ==
    (ArgumentsValid /\ current_video_size <= target_size_bytes) =>
        /\ pc \in {"start", "done"}
        /\ ~probed
        /\ encodes_started = 0
        /\ ~temp_output.exists
        /\ ~output_file.exists
        /\ pc = "done" =>
              /\ results = _build_results(TRUE, "input", current_video_size,
                                          target_size_bytes, 0, 0)
              /\ exit_code = 0

C4_Witness == pc = "done" /\ current_video_size = target_size_bytes

\* C5: once maxIterations encodes are done without convergence and the last
\* size is <= target, the controller's next step returns success=false with
\* the last temp artifact promoted and iterationsUsed = maxIterations
C5_Exhausted ==
    [][ (pc = "loop" /\ Len(seen) = iterations /\ LastSize <= target_size_bytes)
        => /\ pc' = "done"
           /\ results'.returned /\ ~results'.success
           /\ results'.iteration = iterations
           /\ results'.file_path = "output"
           /\ results'.file_size = LastSize
           /\ output_file' = File(LastSize)
           /\ ~temp_output'.exists ]_vars

C5_Witness == Exhausted /\ results.iteration = iterations /\ iterations >= 2

OverIndexes == { i \in 1 .. Len(seen) : EncodedSize(i) >= target_size_bytes }
\* the first encode with the smallest size among those classified "over"
ClosestOver ==
    CHOOSE i \in OverIndexes :
        \A j \in OverIndexes :
            \/ EncodedSize(i) < EncodedSize(j)
            \/ EncodedSize(i) = EncodedSize(j) /\ i <= j

\* C6: once maxIterations encodes are done and the last size is over target,
\* the controller's next step fails, and the closest result it reports is
\* bestOver: the (bitrate, size) of the smallest over-target encode of the run
C6_FailedReportsBestOver ==
    [][ (pc = "loop" /\ Len(seen) = iterations /\ LastSize > target_size_bytes)
        => /\ pc' = "failed"
           /\ ~results'.returned
           /\ output_file' = output_file
           /\ error'.kind = "convergence"
           /\ error'.closest = "best_over"
           /\ <<error'.bitrate, error'.size>> = seen[ClosestOver] ]_vars

\* Scenario C: the first candidate is the floor and every encode overshoots
C6_Witness ==
    /\ Failed
    /\ target_bitrate = MinVideo
    /\ Len(seen) >= 2
    /\ \A i \in 1 .. Len(seen) : EncodedSize(i) > target_size_bytes
    /\ error.closest = "best_over"

\* C7: a run in which some encode was under target does not end in Failed
C7_NoFailureAfterUnder ==
    Failed => \A i \in 1 .. Len(seen) : EncodedSize(i) >= target_size_bytes

C9_BoundsInvariant ==
    probed =>
        /\ MinVideo <= min_bitrate
        /\ min_bitrate <= current_bitrate
        /\ current_bitrate <= max_bitrate
        /\ Len(seen) = 0 =>
              /\ min_bitrate = MinVideo
              /\ current_bitrate = target_bitrate
              /\ max_bitrate >= target_bitrate

C9_Witness ==
    /\ pc = "loop"
    /\ Len(seen) >= 2
    /\ MinVideo < min_bitrate
    /\ min_bitrate < current_bitrate
    /\ current_bitrate < max_bitrate

\* an encode that came out under target but outside the tolerance
UnderOutsideStep ==
    /\ pc = "encoding"
    /\ pc' = "loop"
    /\ last_encoded_size' < target_size_bytes

\* C10 as stated: after an under-target encode outside tolerance minBitrate
\* is >= its prior value and strictly greater than before
C10_Original ==
    [][ UnderOutsideStep
        => min_bitrate' >= min_bitrate /\ min_bitrate' > min_bitrate ]_vars

\* C10 amended: after an under-target encode outside tolerance minBitrate is
\* the bitrate just encoded, which is >= its prior value, and strictly
\* greater exactly when that bitrate was above the prior minBitrate
C10_MinRaised ==
    [][ UnderOutsideStep
        => /\ min_bitrate' = current_bitrate
           /\ min_bitrate' >= min_bitrate
           /\ (min_bitrate' > min_bitrate) = (current_bitrate > min_bitrate) ]_vars

C10_Witness ==
    /\ pc = "loop"
    /\ Len(seen) >= 1
    /\ LastSize < target_size_bytes
    /\ min_bitrate > MinVideo
    /\ min_bitrate = last_encoded_bitrate

\* an encode that came out over target (size >= target)
OverStep ==
    /\ pc = "encoding"
    /\ pc' = "loop"
    /\ last_encoded_size' >= target_size_bytes

\* C11: after an over-target encode maxBitrate is the bitrate just encoded,
\* which is <= its prior value, and the next candidate is <= the maxBitrate
\* that held before the update
C11_MaxLowered ==
    [][ OverStep
        => /\ max_bitrate' <= max_bitrate
           /\ max_bitrate' = current_bitrate
           /\ current_bitrate' <= max_bitrate ]_vars

C11_Witness ==
    /\ pc = "loop"
    /\ Len(seen) >= 2
    /\ LastSize >= target_size_bytes
    /\ max_bitrate = last_encoded_bitrate
    /\ current_bitrate < max_bitrate
    /\ seen[1][1] > max_bitrate

UnderIndexes == { i \in 1 .. Len(seen) : EncodedSize(i) < target_size_bytes }
\* the first encode with the largest size among those classified "under"
ClosestUnder ==
    CHOOSE i \in UnderIndexes :
        \A j \in UnderIndexes :
            \/ EncodedSize(i) > EncodedSize(j)
            \/ EncodedSize(i) = EncodedSize(j) /\ i <= j

BestAreClosest ==
    /\ best_under.set = (UnderIndexes # {})
    /\ best_under.set => <<best_under.bitrate, best_under.size>> = seen[ClosestUnder]
    /\ best_over.set = (OverIndexes # {})
    /\ best_over.set => <<best_over.bitrate, best_over.size>> = seen[ClosestOver]

BestOnlyTighten ==
    /\ best_under.set => best_under'.set /\ best_under'.size >= best_under.size
    /\ best_over.set => best_over'.set /\ best_over'.size <= best_over.size

\* C12: bestUnder is the largest under-target outcome seen so far and
\* bestOver the smallest over-target outcome seen so far; across steps
\* bestUnder's size never decreases, bestOver's size never increases and
\* neither becomes absent again
C12_BestTracksClosest == []BestAreClosest /\ [][BestOnlyTighten]_vars

C12_Witness ==
    /\ pc = "loop"
    /\ best_under.set /\ best_over.set
    /\ \E i, j \in UnderIndexes :
          i < j /\ EncodedSize(j) < EncodedSize(i) /\ best_under.size = EncodedSize(i)

\* ceil(log2(d)) for a bitrate difference d given in bitrate units
RECURSIVE CeilLog2From(_, _, _)
CeilLog2From(d, k, pow) ==
    IF pow * BitrateScale >= d THEN k ELSE CeilLog2From(d, k + 1, 2 * pow)
CeilLog2(d) == CeilLog2From(d, 0, 1)

\* ceil(log2((maxBitrate - minBitrate) / 1)) + 2, from the initial bounds
IterationBound ==
    CHOOSE n \in 0 .. 64 : \E cap \in {InitialMax} : n = CeilLog2(cap - MinVideo) + 2

\* the linear encoder can land in the tolerance band inside the initial
\* bounds: it is under target at the floor and not too far under at the cap
TargetAttainable ==
    /\ probe.duration * 125 * MIN_VIDEO_BITRATE < target_size_bytes
    /\ \E cap \in {InitialMax} :
          LET top == FMulDiv(cap, probe.duration * 125, BitrateScale)
          IN  top >= target_size_bytes
              \/ target_size_bytes - top < tolerance_bytes[1]

\* C13 as stated, for the linear encoder with an attainable target and the
\* default budget: the run converges within IterationBound iterations
C13_ConvergesWithinLogBound ==
    ( /\ probed
      /\ encoder = "linear"
      /\ iterations = DefaultIterations
      /\ TargetAttainable )
    => /\ iteration <= IterationBound
       /\ pc # "failed"
       /\ results.returned => results.success

\* the steps a run can still take: per iteration left the start of the
\* encode, its progress blocks and its end, plus the step in progress
StepsLeft ==
    IF pc \in Terminal THEN 0
    ELSE (2 + MaxBlocks) * (iterations - iteration)
         + (CASE pc = "start" -> 2
              [] pc = "encoding" -> 2 + (MaxBlocks - blocks)
              [] OTHER -> 1)

IterationCountsEncodes ==
    /\ iteration = encodes_started
    /\ iteration <= iterations
    /\ Len(seen) <= encodes_started
    /\ encodes_started <= Len(seen) + 1

\* C14: whatever sizes the encoder produces, the iteration counter equals
\* the number of encodes started and is at most the iteration budget, and
\* the run terminates: every step lowers the number of steps left, which is
\* never negative, and a run that has not reached a terminal outcome can
\* take a step
C14_TerminatesWithinBudget ==
    /\ [](IterationCountsEncodes /\ StepsLeft >= 0)
    /\ [][StepsLeft' < StepsLeft]_vars
    /\ [](pc \notin Terminal => ENABLED Next)

\* a run that used its whole budget on an encoder whose sizes fall when the
\* bitrate rises
C14_Witness ==
    /\ pc \in Terminal
    /\ encoder = "any"
    /\ iterations >= 2
    /\ encodes_started = iterations
    /\ \E i, j \in 1 .. Len(seen) :
           seen[i][1] < seen[j][1] /\ seen[i][2] > seen[j][2]

EncodeFailed == error.kind = "encode"

\* C15: the step on which ffmpeg exits non-zero ends the run with exit code
\* 1, starts no encode, moves no part of the search state and leaves the
\* output path alone; afterwards the run takes no step at all (no retry, no
\* next candidate) and the output path is still unwritten
C15_EncodeFailureAborts ==
    /\ [][ (pc = "encoding" /\ EncodeFailed')
           => /\ pc' = "error"
              /\ exit_code' = 1
              /\ encodes_started' = encodes_started
              /\ iteration' = iteration
              /\ search' = search
              /\ output_file' = output_file ]_vars
    /\ [][~EncodeFailed]_vars
    /\ [](EncodeFailed => pc = "error" /\ exit_code = 1 /\ ~output_file.exists)

\* the second encode fails with iterations left
C15_Witness ==
    /\ EncodeFailed
    /\ encodes_started = 2
    /\ encodes_started < iterations
    /\ Len(seen) = 1
    /\ exit_code = 1

\* the tolerance is not a number of the interval (0, 50]
ToleranceOutside == tolerance_nan \/ tolerance <= 0 \/ tolerance > 50

ValidationError ==
    ~input_exists \/ target_size_mb < 1 \/ ToleranceOutside \/ iterations <= 0

\* nothing of the controller has happened: no probe, no encode, no file
NothingDone ==
    /\ ~probed
    /\ error.kind = "none"
    /\ encodes_started = 0
    /\ ~temp_output.exists
    /\ ~output_file.exists
    /\ ~results.returned

\* C16: main exits 0 exactly when the controller returned a result, 130
\* exactly when the run was cancelled, 1 on a probe failure, an encode
\* failure and a convergence failure, and on a validation error (missing
\* input, size < 1, tolerance outside (0, 50], iterations <= 0) exits 1
\* with the controller never invoked
C16_ExitCodes ==
    /\ (exit_code = 0) <=> results.returned
    /\ (exit_code = 130) <=> (pc = "cancelled")
    /\ pc \in {"error", "failed"} => exit_code = 1
    /\ (exit_code # NoExit) <=> (pc \in Terminal)
    /\ ValidationError => /\ pc \in {"start", "invalid"}
                          /\ pc = "invalid" => exit_code = 1
                          /\ NothingDone

Cancelled == pc = "cancelled"

\* C17: when the user interrupts a running encode, the ffmpeg subprocess is
\* no longer running once the controller has exited, the temporary file is
\* gone, the output path is unwritten, the exit code is 130, and no further
\* iteration starts
C17_CancellationStopsEncoder ==
    /\ [](Cancelled => /\ ~proc_running
                       /\ ~temp_output.exists
                       /\ ~output_file.exists
                       /\ exit_code = 130
                       /\ error.kind = "interrupt")
    /\ [][~Cancelled]_vars

\* what decides the course of the run: the search state, the position, the
\* files and the outcome
control == <<search, pc, iteration, broke, temp_output, output_file, results,
             error, exit_code, encodes_started>>

\* a step taken because a progress block arrived
ProgressStep == pc = "encoding" /\ (blocks' > blocks \/ error'.kind = "progress")

\* C18: a progress block, whatever it contains, changes nothing that decides
\* the course of the run, so runs that differ in their progress streams
\* only have the same candidates, bounds, best results, iteration count and
\* outcome
C18_ProgressNeverAffectsControl == [][ProgressStep => UNCHANGED control]_vars

\* C19: for a block whose out_time_ms is an integer of any sign and
\* magnitude and a duration > 0, the status is built with a percent in
\* [0, 100], and with a positive speed the ETA is
\* max(0, duration - out_seconds) / speed_multiplier and not negative
C19_PercentAndEta ==
    (/\ pc = "shown"
     /\ progress.out_time_ms.kind \in {"int", "huge"}
     /\ video_duration > 0)
    => /\ ~status.raised
       /\ status.percent.set
       /\ status.percent.value >= 0
       /\ status.percent.value <= 100 * PercentScale
       /\ (progress.speed.kind = "num" /\ progress.speed.value > 0)
          => /\ status.eta.set
             /\ status.eta.value >= 0
             /\ progress.out_time_ms.kind = "int"
                => status.eta.value =
                       FMulDiv(Max2(0, video_duration * 1000000
                                       - progress.out_time_ms.value),
                               100, progress.speed.value)

\* ffprobe exited non-zero, gave no duration, one that is not a number, or
\* one that is <= 0
ProbeFailed == probe.status # "ok" \/ probe.duration <= 0

\* C21: a run that has to probe and whose probe fails ends with an error
\* (exit code 1) with no encode started and no temporary or output file
\* created; a probe that only lacks a usable bit_rate does not fail, and the
\* source bitrate is then (current file size * 8) / duration / 1000
C21_ProbeFailure ==
    /\ (ArgumentsValid /\ current_video_size > target_size_bytes /\ ProbeFailed)
       => /\ pc \in {"start", "error"}
          /\ pc = "error" => error.kind = "probe" /\ exit_code = 1
          /\ encodes_started = 0
          /\ ~temp_output.exists
          /\ ~output_file.exists
          /\ ~results.returned
    /\ ~ProbeFailed => error.kind # "probe"
    /\ (probed /\ ~probe.bitrate.set)
       => source_bitrate = OptSome(FMulDiv(current_video_size, 8 * BitrateScale,
                                           probe.duration * 1000))

\* the probe gave a duration that is not a number and the run ended
C21_Witness ==
    /\ pc = "error"
    /\ error.kind = "probe"
    /\ probe.status = "invalid"
    /\ exit_code = 1

\* C22: at Exhausted the size reported and the file promoted to the output
\* path are those stored in bestUnder, the largest under-target size seen
C22_ExhaustedPromotesBestUnder ==
    Exhausted => /\ best_under.set
                 /\ results.file_size = best_under.size
                 /\ output_file = File(best_under.size)

\* the candidate for the next bitrate after an encode, clamped to the bounds:
\* the secant interpolation between bestUnder and bestOver when both are
\* known, else currentBitrate * target / size (the bound midpoint for an
\* encode of 0 bytes, where that quotient does not exist)
ClampedCandidate ==
    LET candidate ==
            IF best_under.set /\ best_over.set
            THEN best_under.bitrate
                 + FMulDiv(target_size_bytes - best_under.size,
                           best_over.bitrate - best_under.bitrate,
                           best_over.size - best_under.size)
            ELSE IF last_encoded_size > 0
                 THEN FMulDiv(last_encoded_bitrate, target_size_bytes,
                              last_encoded_size)
                 ELSE FDiv(min_bitrate + max_bitrate, 2)
    IN  Max2(min_bitrate, Min2(max_bitrate, candidate))

\* C23: after an encode that does not end the run, the next bitrate is the
\* bound midpoint (minBitrate + maxBitrate) / 2 whenever the clamped
\* candidate is less than 1 kbps away from the bitrate just encoded, and the
\* clamped candidate otherwise
C23_Damping ==
    (pc = "loop" /\ Len(seen) >= 1)
    => current_bitrate =
           IF Abs(ClampedCandidate - last_encoded_bitrate) < BitrateScale
           THEN FDiv(min_bitrate + max_bitrate, 2)
           ELSE ClampedCandidate

\* the damping step replaced a candidate next to the bitrate just encoded
C23_Witness ==
    /\ pc = "loop"
    /\ Len(seen) >= 1
    /\ Abs(ClampedCandidate - last_encoded_bitrate) < BitrateScale
    /\ current_bitrate # ClampedCandidate
    /\ current_bitrate = FDiv(min_bitrate + max_bitrate, 2)

\* C24: the iteration count, bitrate and file size of a Converged or
\* Exhausted result are those of the last encode performed, whose artifact
\* is the file promoted to the output path
C24_ResultIsLastEncode ==
    (Converged \/ Exhausted)
    => /\ Len(seen) >= 1
       /\ results.iteration = Len(seen)
       /\ results.bitrate = seen[Len(seen)][1]
       /\ results.file_size = seen[Len(seen)][2]
       /\ output_file = File(seen[Len(seen)][2])

\* an exhausted run of several encodes at different bitrates, after whose
\* last encode a different candidate was computed
C24_Witness ==
    /\ Exhausted
    /\ Len(seen) >= 2
    /\ seen[1][1] # seen[Len(seen)][1]
    /\ current_bitrate # results.bitrate
    /\ results.bitrate = seen[Len(seen)][1]

\* the run ended without a result: validation error, probe or encode
\* failure, convergence failure or cancellation
EndedWithoutResult == pc \in {"invalid", "error", "failed", "cancelled"}

\* C25: the file at the output path changes only in the step that promotes
\* the temporary artifact of the last encode at Converged or Exhausted;
\* starting an encode, its progress, its failure, a probe failure, a
\* convergence failure and a cancellation leave the output path as it was,
\* and a run that ends without a result has produced no output file
C25_OutputOnlyByPromotion ==
    /\ [][ /\ output_file' # output_file
              => /\ pc \in {"encoding", "loop"}
                 /\ pc' = "done"
                 /\ results'.returned
                 /\ results'.iteration >= 1
                 /\ output_file' = File(last_encoded_size')
                 /\ ~temp_output'.exists
           /\ (pc' = "encoding" \/ EndedWithoutResult')
              => output_file' = output_file ]_vars
    /\ [](EndedWithoutResult => ~output_file.exists)
    /\ []((Converged \/ Exhausted) => output_file = File(results.file_size))

\* an encode failed after an earlier encode had left an artifact at the
\* temporary path, and nothing is at the output path
C25_Witness ==
    /\ pc = "error"
    /\ error.kind = "encode"
    /\ Len(seen) >= 1
    /\ ~output_file.exists
    /\ ~temp_output.exists

\* an encode ends without convergence: the bounds are updated and the next
\* candidate is computed
ContinueStep == pc = "encoding" /\ pc' = "loop"

\* C26: after the bound update of an iteration that does not converge the
\* next candidate differs from the bitrate just encoded whenever
\* minBitrate < maxBitrate; once the bounds have collapsed every remaining
\* iteration encodes at that same bitrate
C26_NoRepeatUnlessCollapsed ==
    [][ ContinueStep
        => /\ min_bitrate' < max_bitrate' => current_bitrate' # current_bitrate
           /\ min_bitrate = max_bitrate
              => /\ current_bitrate' = current_bitrate
                 /\ min_bitrate' = min_bitrate
                 /\ max_bitrate' = max_bitrate ]_vars

\* a step that leaves the encode loop
LeavesLoop == pc \in {"loop", "encoding"} /\ pc' \notin {"loop", "encoding"}

\* C27: once initialised currentBitrate and minBitrate are at least
\* MIN_VIDEO_BITRATE and minBitrate never decreases; the 'bitrate too low'
\* break is never taken; the loop is left only by convergence, by an error or
\* cancellation, or with maxIterations reached; and a run that ends over
\* target always names bestOver, never the final result, in its message
C27_FloorNeverBroken ==
    /\ [](probed => /\ current_bitrate >= MinVideo
                    /\ min_bitrate >= MinVideo
                    /\ min_bitrate <= current_bitrate
                    /\ current_bitrate <= max_bitrate)
    /\ [][probed => min_bitrate' >= min_bitrate]_vars
    /\ [](~broke)
    /\ [][ LeavesLoop
           => \/ Converged'
              \/ pc' \in {"error", "cancelled"}
              \/ iteration = iterations /\ (Exhausted' \/ Failed') ]_vars
    /\ [](Failed => /\ best_over.set
                    /\ error.closest = "best_over"
                    /\ LastSize > target_size_bytes)

\* a run whose candidates were held at the floor by the clamp and that ended
\* over target after its last iteration
C27_Witness ==
    /\ Failed
    /\ iteration = iterations
    /\ Len(seen) >= 2
    /\ current_bitrate = MinVideo
    /\ seen[Len(seen)][1] = MinVideo
    /\ best_over.set
    /\ error.closest = "best_over"

====
